---- MODULE Spec2Model ----
(***************************************************************************)
(* autologin: periodic captive-portal detection and login.                 *)
(* Model of src/autologin/__main__.py: main's loop, check_online, login,   *)
(* get_portal_handler and ULCOPortalHandler.login.                         *)
(*                                                                         *)
(* Strings that the program inspects character by character (response      *)
(* bodies, which are stripped and compared) are sequences of tokens; the   *)
(* whitespace tokens are those of Whitespace.  URLs are records of their   *)
(* components so that urljoin can be computed.                             *)
(***************************************************************************)
EXTENDS Integers, Sequences, FiniteSets, TLC

\* ------------------------------------------------------------------ bounds
\* longest run of whitespace the network puts before / after a body
MaxPad == 1
\* number of cycles followed when the outcomes of the cycles are recorded
MaxCycles == 3

\* ------------------------------------------------------------ URL algebra
Url(scheme, host, path, slash, query) ==
    [scheme |-> scheme, host |-> host, path |-> path, slash |-> slash, query |-> query]

\* a relative reference "../"*ups + segs ("/" at the end when slash)
RelRef(ups, segs, slash) == [kind |-> "rel", ups |-> ups, segs |-> segs, slash |-> slash]
\* an absolute-path reference "/" + segs
AbsRef(segs, slash) == [kind |-> "abs", ups |-> 0, segs |-> segs, slash |-> slash]

Front(s) == IF s = <<>> THEN <<>> ELSE SubSeq(s, 1, Len(s) - 1)

RECURSIVE DropLast(_, _)
DropLast(s, n) == IF n = 0 \/ s = <<>> THEN s ELSE DropLast(Front(s), n - 1)

\* urllib.parse.urljoin(base, ref): the reference is resolved against the
\* directory of the base path (the base path without its last segment when
\* the base does not end in "/"); ".." above the root is dropped; the query
\* of the base is not inherited by a reference that has a path.
urljoin_append(base, ref) ==
    Url(base.scheme, base.host, base.path \o ref.segs, ref.slash, "")
urljoin(base, ref) ==
    IF ref.kind = "abs"
    THEN Url(base.scheme, base.host, ref.segs, ref.slash, "")
    ELSE LET dir == IF base.slash THEN base.path ELSE Front(base.path)
         IN  Url(base.scheme, base.host, DropLast(dir, ref.ups) \o ref.segs, ref.slash, "")

\* ------------------------------------------------------------- constants
FirefoxUrl == Url("http", "detectportal.firefox.com", <<"canonical.html">>, FALSE, "")
GnomeUrl   == Url("http", "nmcheck.gnome.org", <<"check_network_status.txt">>, FALSE, "")
ArchUrl    == Url("http", "ping.archlinux.org", <<>>, TRUE, "")

\* PORTAL_DETECT_URLS: canary URL -> expected content (token sequences; none
\* of them begins or ends with whitespace, the middle one contains some)
PORTAL_DETECT_URLS ==
    (FirefoxUrl :> <<"<meta http-equiv=\"refresh\" content=\"0;url=https://support.mozilla.org/kb/captive-portal\"/>">>)
    @@ (GnomeUrl :> <<"NetworkManager", " ", "is", " ", "online">>)
    @@ (ArchUrl :> <<"This domain is used for connectivity checking (captive portal detection).">>)

body_criteria == {"<title>ULCO Portail Captif</title>"}
url_criteria  == {[scheme |-> "https", host |-> "eduspot.univ-littoral.fr"]}

SsoUrl == Url("https", "auth.univ-littoral.fr", <<"cas", "login">>, FALSE,
              "service=https://eduspot.univ-littoral.fr/login_cas/")
UpdateRef_sibling == RelRef(0, <<"update">>, TRUE)
UpdateRef == RelRef(1, <<"update">>, TRUE)

Whitespace == {" ", "\n"}

\* str.strip(): leading and trailing whitespace removed
RECURSIVE lstrip(_)
lstrip(s) == IF s # <<>> /\ Head(s) \in Whitespace THEN lstrip(Tail(s)) ELSE s
RECURSIVE rstrip(_)
rstrip(s) == IF s # <<>> /\ s[Len(s)] \in Whitespace THEN rstrip(Front(s)) ELSE s
strip_left_only(s) == lstrip(s)
strip(s) == rstrip(lstrip(s))

\* Response.ok: the status is not an error status
ok_any(status) == TRUE
ok(status) == status < 400

\* ConfigParser.getboolean(section, key, fallback=True) on the stored value
getboolean_truthy(value, fallback) ==
    IF value = "absent" THEN fallback ELSE value # ""
getboolean(value, fallback) ==
    IF value = "absent" THEN fallback ELSE value = "true"

\* --------------------------------------------------- the program's inputs
RECURSIVE SeqsUpTo(_, _)
SeqsUpTo(S, n) ==
    IF n = 0 THEN {<<>>}
    ELSE LET shorter == SeqsUpTo(S, n - 1)
         IN  shorter \cup {Append(s, x) : s \in shorter, x \in S}

Pads == SeqsUpTo(Whitespace, MaxPad)

Canaries == DOMAIN PORTAL_DETECT_URLS

UlcoPortalUrl  == Url("https", "eduspot.univ-littoral.fr", <<>>, TRUE, "")
OtherPortalUrl == Url("http", "wifi.hotel.example", <<"login">>, FALSE, "")
UlcoPage  == <<"<title>ULCO Portail Captif</title>", " ", "<body/>">>
OtherPage == <<"<title>Hotel WiFi</title>">>

\* bodies a canary GET can come back with: any expected content or a portal
\* page, with whitespace around it
Cores  == {PORTAL_DETECT_URLS[c] : c \in Canaries} \cup {UlcoPage, OtherPage}
Bodies == {l \o core \o r : l \in Pads, core \in Cores, r \in Pads}

Statuses == {200, 401}

TransportError == [kind |-> "RequestException"]
\* no timeout is passed to requests: a request may never be answered
NoAnswer == [kind |-> "no answer"]
Response(url, status, content) ==
    [kind |-> "response", url |-> url, status |-> status, content |-> content]

\* the final URL of the canary GET: the canary itself or a portal's page
ProbeResponses(url) ==
    {Response(u, 200, b) : u \in {url, UlcoPortalUrl, OtherPortalUrl}, b \in Bodies}

\* what BeautifulSoup finds in the SSO page: the first form (or none), its
\* input named "lt" (absent, without a value attribute, or with a value) and
\* its action attribute (absent, or a reference)
NoForm == [form |-> FALSE, lt |-> "none", action |-> <<>>]
Forms  == [form : {TRUE}, lt : {"none", "novalue", "LT-1"},
           action : {<<>>, <<RelRef(1, <<"login_cas">>, TRUE)>>, <<AbsRef(<<"cas", "login">>, FALSE)>>}]
SsoPages == {NoForm} \cup Forms
SsoResponses == {Response(SsoUrl, st, pg) : st \in Statuses, pg \in SsoPages}

EduspotLoginCas == Url("https", "eduspot.univ-littoral.fr", <<"login_cas">>, TRUE, "ticket=ST-1")
EduspotNested   == Url("https", "eduspot.univ-littoral.fr", <<"portal", "login_cas">>, FALSE, "")
EduspotNestedDir == Url("https", "eduspot.univ-littoral.fr", <<"portal", "login_cas">>, TRUE, "")
EduspotFile     == Url("https", "eduspot.univ-littoral.fr", <<"login_cas">>, FALSE, "")
\* the URL the credential POST ends on after its redirects: one or two path
\* segments, with or without a trailing slash
PostResponseUrls == {EduspotLoginCas, EduspotNested, EduspotNestedDir, EduspotFile}
PostResponses == {Response(u, st, <<>>) : u \in PostResponseUrls, st \in Statuses}
ConfirmResponses(url) == {Response(url, st, <<>>) : st \in Statuses}

\* CONFIG_EXPECTED_PATHS, in list order
CONFIG_EXPECTED_PATHS ==
    <<"~/.config/autologin/config.ini", "~/.autologin.ini", "/etc/autologin.ini">>
ExplicitPath == "/opt/autologin/custom.ini"
\* args.configuration_path: None (<<>>) or a list of one path
Args == {<<>>, <<ExplicitPath>>}
\* the paths for which os.path.exists is true
FileSystems == SUBSET ({CONFIG_EXPECTED_PATHS[i] : i \in 1..Len(CONFIG_EXPECTED_PATHS)} \cup {ExplicitPath})

\* config before a file is loaded (None)
NoConfig == [is_internal_account |-> "none", login |-> "none", password |-> "none"]

\* the [portal.ulco] section of the configuration file
Configs == [is_internal_account : {"absent", "true", "false"},
            login : {"absent", "alice"}, password : {"hunter2"}]

NoData == [none |-> TRUE]
Get(url) == [method |-> "GET", url |-> url, data |-> NoData]
Post(url, data) == [method |-> "POST", url |-> url, data |-> data]

\* ------------------------------------------------------------------ state
VARIABLES
    pc,        \* where main is: "start", "loaded", "exited" (sys.exit(1)),
               \* "check_online", "sso_get", "cred_post", "confirm_post",
               \* "sleep", "blocked" (inside a request that is never
               \* answered) or "crashed" (an exception left main)
    config,    \* the loaded configuration, NoConfig before
    startup,   \* <<[argv, files, path]>> while main looks for its configuration
    history,   \* the completed cycles, when they are recorded
    requests,  \* HTTP requests issued in the current cycle, in order
    answers,   \* what the network answered to each of them
    printed,   \* lines printed in the current cycle
    raised,    \* the exception that left check_online, "none" if none
    handler,   \* class returned by get_portal_handler, "none" before
    call,      \* <<[url, portal]>> once login(config, url, portal) was called
    session,   \* <<cookies>> once the requests.Session exists
    submit     \* <<[url, parameters]>> once the form was parsed

vars == <<pc, config, startup, history, requests, answers, printed, raised, handler, call, session, submit>>

Started    == <<"autologin started">>
Offline    == <<"Network error, probably offline">>
IsOnline   == <<"Computer is online">>
Mismatch   == <<"Did not match expected content, trying to log-in.">>
Detected_user(h) == <<"Detected portal of type " \o h \o " for ", config.login>>
Detected(h) == <<"Detected portal of type " \o h \o ".">>
Waiting    == <<"Waiting for 60.0s before checking.">>

InvalidLogin == "RuntimeError: Invalid login or password"
Renater      == "RuntimeError: Renater accounts are not yet supported"

NotFound     == <<"Config file not found.">>
NoConfigFile == <<"Could not find any configuration file, please create one at one of the expected paths, or pass it as an argument.">>

Kanet == [name |-> "kanet-choice", value |-> "cas", domain |-> "univ-littoral.fr", path |-> "/"]
\* requests.Session keeps the cookies its responses set: one per server
SetCookie(response) == {[name |-> "session", value |-> "id", domain |-> response.url.host, path |-> "/"]}

Init ==
    /\ pc = "start"
    /\ config = NoConfig
    /\ startup = <<>>
    /\ history = <<>>
    /\ requests = <<>>
    /\ answers = <<>>
    /\ printed = <<>>
    /\ raised = "none"
    /\ handler = "none"
    /\ call = <<>>
    /\ session = <<>>
    /\ submit = <<>>

\* main, lines 127-130: the first of the paths that exists, <<>> if none
RECURSIVE FirstExisting(_, _)
FirstExisting(paths, files) ==
    IF paths = <<>> THEN <<>>
    ELSE IF Head(paths) \in files THEN <<Head(paths)>>
    ELSE FirstExisting(Tail(paths), files)

\* main, lines 120-130: the path whose file is loaded, <<>> if none is
FindConfig_fallback(argv, files) ==
    IF argv # <<>> /\ argv[1] \in files THEN <<argv[1]>>
    ELSE FirstExisting(CONFIG_EXPECTED_PATHS, files)
FindConfig(argv, files) ==
    IF argv # <<>>
    THEN IF argv[1] \in files THEN <<argv[1]>> ELSE <<>>
    ELSE FirstExisting(CONFIG_EXPECTED_PATHS, files)

\* main, lines 113-139: no configuration file is found, sys.exit(1)
StartExits ==
    /\ pc = "start"
    /\ \E argv \in Args : \E files \in FileSystems :
        /\ FindConfig(argv, files) = <<>>
        /\ startup' = <<[argv |-> argv, files |-> files, path |-> <<>>, status |-> 1]>>
        /\ printed' = IF argv # <<>> THEN <<NotFound>> ELSE <<NoConfigFile>>
    /\ pc' = "exited"
    /\ UNCHANGED <<config, history, requests, answers, raised, handler, call, session, submit>>

\* main, lines 113-130: the configuration file is found and loaded
StartLoads ==
    /\ pc = "start"
    /\ \E argv \in Args : \E files \in FileSystems :
        /\ FindConfig(argv, files) # <<>>
        /\ startup' = <<[argv |-> argv, files |-> files, path |-> FindConfig(argv, files), status |-> 0]>>
    /\ config' \in Configs
    /\ pc' = "loaded"
    /\ UNCHANGED <<history, requests, answers, printed, raised, handler, call, session, submit>>

\* main, lines 141-148: the loop is entered; args and path are not used again
EnterLoop ==
    /\ pc = "loaded"
    /\ printed' = <<Started>>
    /\ startup' = <<>>
    /\ pc' = "check_online"
    /\ UNCHANGED <<config, history, requests, answers, raised, handler, call, session, submit>>

\* get_portal_handler(url, portal): every portal is taken to be ULCO's
get_portal_handler(url, portal) == "ULCOPortalHandler"

ProbeFails_login ==
    /\ pc = "check_online"
    /\ \E url \in Canaries :
        /\ requests' = <<Get(url)>>
        /\ answers' = <<TransportError>>
        /\ call' = <<[url |-> url, portal |-> <<>>]>>
        /\ handler' = get_portal_handler(url, <<>>)
    /\ printed' = <<Offline, Mismatch>>
    /\ pc' = "sso_get"
    /\ raised' = "none"
    /\ session' = <<{}>>
    /\ submit' = <<>>
    /\ UNCHANGED <<config, startup, history>>

ProbeFails_reprobe ==
    /\ pc = "check_online"
    /\ \E url \in Canaries : \E again \in Canaries :
        /\ requests' = <<Get(url), Get(again)>>
        /\ answers' = <<TransportError, TransportError>>
    /\ printed' = <<Offline, Waiting>>
    /\ pc' = "sleep"
    /\ raised' = "none"
    /\ handler' = "none"
    /\ call' = <<>>
    /\ session' = <<>>
    /\ submit' = <<>>
    /\ UNCHANGED <<config, startup, history>>

ProbeFails_timer ==
    /\ pc \in {"check_online", "sso_get", "cred_post", "confirm_post"}
    /\ \E url \in Canaries :
        /\ requests' = <<Get(url)>>
        /\ answers' = <<TransportError>>
    /\ printed' = <<Offline, Waiting>>
    /\ pc' = "sleep"
    /\ raised' = "none"
    /\ handler' = "none"
    /\ call' = <<>>
    /\ session' = <<>>
    /\ submit' = <<>>
    /\ UNCHANGED <<config, startup, history>>

\* check_online, lines 90-96: the canary GET raises RequestException
ProbeFails ==
    /\ pc = "check_online"
    /\ \E url \in Canaries :
        /\ requests' = <<Get(url)>>
        /\ answers' = <<TransportError>>
    /\ printed' = <<Offline, Waiting>>
    /\ pc' = "sleep"
    /\ raised' = "none"
    /\ handler' = "none"
    /\ call' = <<>>
    /\ session' = <<>>
    /\ submit' = <<>>
    /\ UNCHANGED <<config, startup, history>>

\* check_online, lines 90-99: the stripped body is the expected content
ProbeOnline ==
    /\ pc = "check_online"
    /\ \E url \in Canaries : \E result \in ProbeResponses(url) :
        /\ strip(result.content) = PORTAL_DETECT_URLS[url]
        /\ requests' = <<Get(url)>>
        /\ answers' = <<result>>
    /\ printed' = <<IsOnline, Waiting>>
    /\ pc' = "sleep"
    /\ raised' = "none"
    /\ handler' = "none"
    /\ call' = <<>>
    /\ session' = <<>>
    /\ submit' = <<>>
    /\ UNCHANGED <<config, startup, history>>

\* check_online, line 101: what login is called with
LoginArgs_requested(url, result) == [url |-> url, portal |-> result.content]
LoginArgs(url, result) == [url |-> result.url, portal |-> result.content]

\* check_online, lines 100-101, login, lines 83-85, and the handler's login
\* up to its first request (lines 46-51) or its raise (lines 71-72)
ProbePortal ==
    /\ pc = "check_online"
    /\ \E url \in Canaries : \E result \in ProbeResponses(url) :
        /\ strip(result.content) # PORTAL_DETECT_URLS[url]
        /\ requests' = <<Get(url)>>
        /\ answers' = <<result>>
        /\ LET args == LoginArgs(url, result)
               h == get_portal_handler(args.url, args.portal)
               internal == getboolean(config.is_internal_account, TRUE)
           IN  /\ handler' = h
               /\ call' = <<args>>
               /\ IF internal
                  THEN /\ session' = <<{Kanet}>>
                       /\ printed' = <<Mismatch, Detected(h), args.portal>>
                       /\ raised' = "none"
                       /\ pc' = "sso_get"
                  ELSE /\ session' = <<{}>>
                       /\ printed' = <<Mismatch, Detected(h)>>
                       /\ raised' = Renater
                       /\ pc' = "crashed"
    /\ submit' = <<>>
    /\ UNCHANGED <<config, startup, history>>

\* lines 55-64 on the SSO page: the exception raised while the parameters and
\* the submit URL are built, in the order the code evaluates them
ParseError(page) ==
    IF config.login = "absent" THEN "NoOptionError"   \* config.get, line 58
    ELSE IF ~page.form THEN "AttributeError"          \* None.find, line 60
    ELSE IF page.lt = "none" THEN "TypeError"         \* None["value"], line 60
    ELSE IF page.lt = "novalue" THEN "KeyError"       \* tag["value"], line 60
    ELSE IF page.action = <<>> THEN "KeyError"        \* form["action"], line 64
    ELSE "none"

\* lines 57-63
Parameters(page) ==
    [username |-> config.login, password |-> config.password, lt |-> page.lt,
     eventId |-> "submit", submit |-> "SE CONNECTER"]

\* lines 52-54: the SSO GET raises RequestException, which nothing catches
SsoGetFails ==
    /\ pc = "sso_get"
    /\ requests' = Append(requests, Get(SsoUrl))
    /\ answers' = Append(answers, TransportError)
    /\ raised' = "RequestException"
    /\ pc' = "crashed"
    /\ UNCHANGED <<config, startup, history, printed, handler, call, session, submit>>

\* lines 52-64: the SSO page lacks what the code reads from it
SsoPageBroken ==
    /\ pc = "sso_get"
    /\ \E response \in SsoResponses :
        /\ ParseError(response.content) # "none"
        /\ requests' = Append(requests, Get(SsoUrl))
        /\ answers' = Append(answers, response)
        /\ raised' = ParseError(response.content)
        /\ session' = <<session[1] \cup SetCookie(response)>>
    /\ pc' = "crashed"
    /\ UNCHANGED <<config, startup, history, printed, handler, call, submit>>

\* lines 52-64: parameters and submit URL are ready
SsoPageParsed ==
    /\ pc = "sso_get"
    /\ \E response \in SsoResponses :
        /\ ParseError(response.content) = "none"
        /\ requests' = Append(requests, Get(SsoUrl))
        /\ answers' = Append(answers, response)
        /\ submit' = <<[url |-> urljoin(response.url, response.content.action[1]),
                        parameters |-> Parameters(response.content)]>>
        /\ session' = <<session[1] \cup SetCookie(response)>>
    /\ pc' = "cred_post"
    /\ UNCHANGED <<config, startup, history, printed, raised, handler, call>>

CredPostFails_retry ==
    /\ pc = "cred_post"
    /\ requests' = Append(requests, Post(submit[1].url, submit[1].parameters))
    /\ answers' = Append(answers, TransportError)
    /\ UNCHANGED <<pc, raised, config, startup, history, printed, handler, call, session, submit>>

\* line 65: the credential POST raises RequestException
CredPostFails ==
    /\ pc = "cred_post"
    /\ requests' = Append(requests, Post(submit[1].url, submit[1].parameters))
    /\ answers' = Append(answers, TransportError)
    /\ raised' = "RequestException"
    /\ pc' = "crashed"
    /\ UNCHANGED <<config, startup, history, printed, handler, call, session, submit>>

\* lines 65-67: the answer to the credential POST is not ok
CredPostRejected ==
    /\ pc = "cred_post"
    /\ \E response \in PostResponses :
        /\ ~ok(response.status)
        /\ requests' = Append(requests, Post(submit[1].url, submit[1].parameters))
        /\ answers' = Append(answers, response)
        /\ session' = <<session[1] \cup SetCookie(response)>>
    /\ raised' = InvalidLogin
    /\ pc' = "crashed"
    /\ UNCHANGED <<config, startup, history, printed, handler, call, submit>>

\* lines 65-66: the answer to the credential POST is ok
CredPostAccepted ==
    /\ pc = "cred_post"
    /\ \E response \in PostResponses :
        /\ ok(response.status)
        /\ requests' = Append(requests, Post(submit[1].url, submit[1].parameters))
        /\ answers' = Append(answers, response)
        /\ session' = <<session[1] \cup SetCookie(response)>>
    /\ pc' = "confirm_post"
    /\ UNCHANGED <<config, startup, history, printed, raised, handler, call, submit>>

\* the response the confirm POST is derived from (line 69)
LastResponse == answers[Len(answers)]

ConfirmPostFails_swallowed ==
    /\ pc = "confirm_post"
    /\ requests' = Append(requests, Post(urljoin(LastResponse.url, UpdateRef),
                                         [httpredirect |-> FALSE]))
    /\ answers' = Append(answers, TransportError)
    /\ printed' = Append(printed, Waiting)
    /\ pc' = "sleep"
    /\ UNCHANGED <<config, startup, history, raised, handler, call, session, submit>>

\* lines 68-70: the confirm POST raises RequestException
ConfirmPostFails ==
    /\ pc = "confirm_post"
    /\ requests' = Append(requests, Post(urljoin(LastResponse.url, UpdateRef),
                                         [httpredirect |-> FALSE]))
    /\ answers' = Append(answers, TransportError)
    /\ raised' = "RequestException"
    /\ pc' = "crashed"
    /\ UNCHANGED <<config, startup, history, printed, handler, call, session, submit>>

\* lines 68-70: the confirm POST is answered, whatever the status; login and
\* check_online return, main prints the waiting line (line 149)
ConfirmPostDone ==
    /\ pc = "confirm_post"
    /\ LET url == urljoin(LastResponse.url, UpdateRef)
       IN  \E response \in ConfirmResponses(url) :
            /\ requests' = Append(requests, Post(url, [httpredirect |-> FALSE]))
            /\ answers' = Append(answers, response)
            /\ session' = <<session[1] \cup SetCookie(response)>>
    /\ printed' = Append(printed, Waiting)
    /\ pc' = "sleep"
    /\ UNCHANGED <<config, startup, history, raised, handler, call, submit>>

\* requests.get, line 93, without a timeout: the canary never answers
ProbeHangs ==
    /\ pc = "check_online"
    /\ \E url \in Canaries : requests' = <<Get(url)>>
    /\ answers' = <<NoAnswer>>
    /\ printed' = <<>>
    /\ pc' = "blocked"
    /\ UNCHANGED <<config, startup, history, raised, handler, call, session, submit>>

\* session.get, lines 52-54, without a timeout: the SSO server never answers
SsoGetHangs ==
    /\ pc = "sso_get"
    /\ requests' = Append(requests, Get(SsoUrl))
    /\ answers' = Append(answers, NoAnswer)
    /\ pc' = "blocked"
    /\ UNCHANGED <<config, startup, history, printed, raised, handler, call, session, submit>>

\* session.post, line 65, without a timeout
CredPostHangs ==
    /\ pc = "cred_post"
    /\ requests' = Append(requests, Post(submit[1].url, submit[1].parameters))
    /\ answers' = Append(answers, NoAnswer)
    /\ pc' = "blocked"
    /\ UNCHANGED <<config, startup, history, printed, raised, handler, call, session, submit>>

\* session.post, lines 68-70, without a timeout
ConfirmPostHangs ==
    /\ pc = "confirm_post"
    /\ requests' = Append(requests, Post(urljoin(LastResponse.url, UpdateRef),
                                         [httpredirect |-> FALSE]))
    /\ answers' = Append(answers, NoAnswer)
    /\ pc' = "blocked"
    /\ UNCHANGED <<config, startup, history, printed, raised, handler, call, session, submit>>

Sleep_keeps ==
    /\ pc = "sleep"
    /\ pc' = "check_online"
    /\ requests' = <<>>
    /\ answers' = <<>>
    /\ printed' = <<>>
    /\ handler' = "none"
    /\ call' = <<>>
    /\ UNCHANGED <<config, startup, history, raised, session, submit>>

\* main, lines 150 and 147-148: the sleep ends and the loop calls
\* check_online again, whose locals are fresh
Sleep ==
    /\ pc = "sleep"
    /\ pc' = "check_online"
    /\ requests' = <<>>
    /\ answers' = <<>>
    /\ printed' = <<>>
    /\ handler' = "none"
    /\ call' = <<>>
    /\ session' = <<>>
    /\ submit' = <<>>
    /\ UNCHANGED <<config, startup, history, raised>>

\* every step of main but the end of the sleep
Cycle ==
    \/ StartExits
    \/ StartLoads
    \/ EnterLoop
    \/ ProbeHangs
    \/ SsoGetHangs
    \/ CredPostHangs
    \/ ConfirmPostHangs
    \/ ProbeFails
    \/ ProbeOnline
    \/ ProbePortal
    \/ SsoGetFails
    \/ SsoPageBroken
    \/ SsoPageParsed
    \/ CredPostFails
    \/ CredPostRejected
    \/ CredPostAccepted
    \/ ConfirmPostFails
    \/ ConfirmPostDone

Next == Cycle \/ Sleep

Spec == Init /\ [][Next]_vars

\* ---------------------------------------------------------------- outcomes
\* the exceptions that name a failure of the login protocol
LoginFailure(exc) ==
    CASE exc = "RequestException" -> "Network"
      [] exc = InvalidLogin -> "InvalidCredentials"
      [] exc = Renater -> "Unsupported"
      [] OTHER -> "untyped"

\* how ULCOPortalHandler.login ended, "running" while it has not; an
\* exception that names no failure of the protocol is reported by its class
LoginOutcome ==
    IF session = <<>> THEN "not called"
    ELSE IF raised # "none"
         THEN IF LoginFailure(raised) = "untyped" THEN raised
              ELSE "Failed(" \o LoginFailure(raised) \o ")"
    ELSE IF pc = "sleep" THEN "LoggedIn"
    ELSE "running"

\* the outcome of the cycle that check_online has finished, from what it
\* printed (lines 95, 98) and from how login ended
CycleOutcome ==
    IF pc \notin {"sleep", "crashed"} THEN "running"
    ELSE IF printed # <<>> /\ printed[1] = Offline THEN "Unreachable"
    ELSE IF printed # <<>> /\ printed[1] = IsOnline THEN "AlreadyOnline"
    ELSE IF handler = "none" THEN "UnknownPortal"
    ELSE IF LoginOutcome = "LoggedIn" THEN "LoggedInNow"
    ELSE "LoginFailed"

ProbeFailed   == answers # <<>> /\ answers[1].kind = "RequestException"
ProbeAnswered == answers # <<>> /\ answers[1].kind = "response"

\* body is the content with nothing but whitespace before and after it
TrimsTo(body, content) ==
    \E i \in 0..Len(body) :
        /\ i + Len(content) <= Len(body)
        /\ SubSeq(body, i + 1, i + Len(content)) = content
        /\ \A k \in 1..Len(body) :
            (k <= i \/ k > i + Len(content)) => body[k] \in Whitespace

\* the signature of ULCOPortalHandler: a body marker or a URL marker
SignatureMatches(url, portal) ==
    \/ \E k \in 1..Len(portal) : portal[k] \in body_criteria
    \/ [scheme |-> url.scheme, host |-> url.host] \in url_criteria

\* the probe's verdict, from the first line check_online printed
Verdict ==
    IF printed = <<>> THEN "none"
    ELSE IF printed[1] = Offline THEN "Unreachable"
    ELSE IF printed[1] = IsOnline THEN "Online"
    ELSE IF printed[1] = Mismatch THEN "Portal"
    ELSE "none"

\* main, lines 147-150, with the finished cycle written down: what the probe
\* found, whether the portal carries ULCO's signature, how the cycle ended
SleepRecorded ==
    /\ pc = "sleep"
    /\ Len(history) + 1 < MaxCycles
    /\ history' = Append(history,
                         [verdict |-> Verdict,
                          matched |-> call # <<>> /\ SignatureMatches(call[1].url, call[1].portal),
                          outcome |-> CycleOutcome])
    /\ pc' = "check_online"
    /\ requests' = <<>>
    /\ answers' = <<>>
    /\ printed' = <<>>
    /\ handler' = "none"
    /\ call' = <<>>
    /\ session' = <<>>
    /\ submit' = <<>>
    /\ UNCHANGED <<config, startup, raised>>

NextCycles == Cycle \/ SleepRecorded

\* main followed for MaxCycles cycles, the finished ones recorded
SpecCycles == Init /\ [][NextCycles]_vars

\* ------------------------------------------------------------------ claims

\* C1: no failure of a cycle terminates the process (as stated; the code
\* lets every exception of login leave main)
C1_NoFailureTerminates == pc # "crashed"

\* C2: when the canary GET fails at transport level the cycle's outcome is
\* Unreachable, no handler is selected, login is not called and the canary
\* GET is the only request of the cycle
C2_ProbeFailureIsUnreachable ==
    ProbeFailed =>
        /\ CycleOutcome = "Unreachable"
        /\ handler = "none"
        /\ call = <<>>
        /\ session = <<>>
        /\ Len(requests) = 1
        /\ raised = "none"
C2_Witness == ProbeFailed /\ pc = "sleep"

\* C3: when the canary answers its expected body, surrounded by whitespace
\* or not, the cycle's outcome is AlreadyOnline, login is not called and the
\* canary GET is the only request of the cycle
C3_ExpectedBodyIsOnline ==
    (ProbeAnswered /\ TrimsTo(answers[1].content, PORTAL_DETECT_URLS[requests[1].url])) =>
        /\ CycleOutcome = "AlreadyOnline"
        /\ handler = "none"
        /\ call = <<>>
        /\ session = <<>>
        /\ Len(requests) = 1
        /\ raised = "none"
C3_Witness ==
    /\ ProbeAnswered
    /\ pc = "sleep"
    /\ answers[1].content = PORTAL_DETECT_URLS[GnomeUrl] \o <<"\n">>
    /\ requests[1].url = GnomeUrl

\* C4: when the canary answers another body the verdict is Portal, and login
\* and the classification receive the URL of the response, not the canary's,
\* and the body of the response
C4_MismatchHandsOverFinalUrl ==
    (ProbeAnswered /\ ~TrimsTo(answers[1].content, PORTAL_DETECT_URLS[requests[1].url])) =>
        /\ printed # <<>> /\ printed[1] = Mismatch
        /\ call = <<[url |-> answers[1].url, portal |-> answers[1].content]>>
        /\ session # <<>>
        /\ (getboolean(config.is_internal_account, TRUE) => printed[3] = answers[1].content)
C4_Witness ==
    /\ ProbeAnswered
    /\ call # <<>>
    /\ call[1].url = UlcoPortalUrl
    /\ requests[1].url = ArchUrl
    /\ call[1].portal = <<" ">> \o UlcoPage

\* C5: a portal that matches no signature gets no handler and no login call
\* (as stated; get_portal_handler returns ULCOPortalHandler for every portal)
C5_UnmatchedPortalHasNoHandler ==
    (call # <<>> /\ ~SignatureMatches(call[1].url, call[1].portal)) =>
        /\ handler = "none"
        /\ session = <<>>
        /\ Len(requests) = 1
        /\ (pc \in {"sleep", "crashed"} => CycleOutcome = "UnknownPortal")

\* C6: with the federated account kind login ends in Failed(Unsupported) and
\* the cycle holds no request but the canary GET
C6_FederatedIsUnsupported ==
    (config.is_internal_account = "false" /\ call # <<>>) =>
        /\ LoginOutcome = "Failed(Unsupported)"
        /\ Len(requests) = 1
        /\ requests[1].method = "GET" /\ requests[1].url \in Canaries
C6_Witness == config.is_internal_account = "false" /\ call # <<>> /\ raised = Renater

C8_MissingFormIsProtocolMismatch ==
    (/\ config.login # "absent"
     /\ Len(answers) >= 2 /\ answers[2].kind = "response"
     /\ (~answers[2].content.form \/ answers[2].content.lt = "none")) =>
        /\ LoginOutcome = "Failed(ProtocolMismatch)"
        /\ Len(requests) = 2

\* C9: a transport error on the SSO GET, the credential POST or the confirm
\* POST ends login in Failed(Network), and the failed request is the last
\* one of the attempt
C9_TransportErrorIsNetwork ==
    \A i \in 2..Len(answers) :
        answers[i].kind = "RequestException" =>
            /\ LoginOutcome = "Failed(Network)"
            /\ Len(requests) = i
            /\ pc = "crashed"
C9_Witness ==
    /\ Len(answers) = 4 /\ answers[4].kind = "RequestException"
    /\ requests[4].method = "POST"

\* C10: internal account, SSO page with a form carrying the token and the
\* relative action ../login_cas/, credential POST answered with success and
\* no transport error: once the attempt is over, the SSO GET, the credential
\* POST to the resolved action and the confirm POST were issued and login
\* ended in LoggedIn
ReferenceLogin ==
    /\ config.is_internal_account # "false"
    /\ config.login # "absent"
    /\ call # <<>>
    /\ \A i \in 2..Len(answers) : answers[i].kind = "response"
    /\ Len(answers) >= 2 =>
        /\ answers[2].content.form
        /\ answers[2].content.lt = "LT-1"
        /\ answers[2].content.action = <<RelRef(1, <<"login_cas">>, TRUE)>>
    /\ Len(answers) >= 3 => answers[3].status = 200
C10_ReferenceLoginSucceeds ==
    (ReferenceLogin /\ pc \in {"sleep", "crashed"}) =>
        /\ LoginOutcome = "LoggedIn"
        /\ Len(requests) = 4
        /\ requests[2] = Get(SsoUrl)
        /\ requests[3] = Post(Url("https", "auth.univ-littoral.fr", <<"login_cas">>, TRUE, ""),
                              [username |-> "alice", password |-> "hunter2", lt |-> "LT-1",
                               eventId |-> "submit", submit |-> "SE CONNECTER"])
        /\ requests[4].method = "POST"
        /\ requests[4].data = [httpredirect |-> FALSE]
C10_Witness ==
    /\ ReferenceLogin
    /\ pc = "sleep"
    /\ Len(requests) = 4

\* C11: three consecutive cycles, the network first online, then a portal
\* with ULCO's signature and a login that succeeds, then a portal without
\* the signature: the outcomes are AlreadyOnline, LoggedInNow, UnknownPortal
\* and the process has not stopped (as stated; the third cycle runs ULCO's
\* login against the unknown portal, see C5)
C11_ThreeCycles ==
    (/\ Len(history) = 2
     /\ history[1].verdict = "Online"
     /\ history[2].verdict = "Portal" /\ history[2].matched
     /\ history[2].outcome = "LoggedInNow"
     /\ call # <<>> /\ ~SignatureMatches(call[1].url, call[1].portal)) =>
        /\ history[1].outcome = "AlreadyOnline"
        /\ handler = "none"
        /\ session = <<>>
        /\ pc # "crashed"
        /\ (pc = "sleep" => CycleOutcome = "UnknownPortal")

\* C12: a request that is never answered ends as a transport failure
\* (Unreachable for the probe, Failed(Network) for a step of login) and the
\* cycle completes (as stated; no request carries a timeout, so the cycle
\* stays inside the request)
C12_UnansweredRequestEnds ==
    \A i \in 1..Len(answers) :
        answers[i].kind = "no answer" =>
            /\ pc # "blocked"
            /\ IF i = 1 THEN CycleOutcome = "Unreachable"
                        ELSE LoginOutcome = "Failed(Network)"

\* C13: login ends in LoggedIn only if the SSO GET, the credential POST and
\* the confirm POST were all answered with a success status (as stated; the
\* code only tests the status of the credential POST)
C13_LoggedInOnlyIfAllSucceeded ==
    LoginOutcome = "LoggedIn" =>
        \A i \in 2..Len(answers) :
            answers[i].kind = "response" /\ answers[i].status \in 200..299

\* C14: within one login the discriminator cookie is set before the first
\* request, the requests are the SSO GET, the credential POST and the
\* confirm POST in this order, each at most once, and a request is issued
\* only after all the earlier ones were answered
C14_LoginStepsInOrder ==
    /\ Len(requests) <= 4
    /\ Len(answers) = Len(requests)
    /\ \A i \in 1..(Len(requests) - 1) : answers[i].kind = "response"
    /\ Len(requests) >= 2 =>
        /\ requests[2] = Get(SsoUrl)
        /\ session # <<>> /\ Kanet \in session[1]
    /\ Len(requests) >= 3 =>
        /\ requests[3].method = "POST"
        /\ DOMAIN requests[3].data = {"username", "password", "lt", "eventId", "submit"}
    /\ Len(requests) >= 4 =>
        /\ requests[4].method = "POST"
        /\ DOMAIN requests[4].data = {"httpredirect"}
C14_Witness ==
    /\ Len(requests) = 4
    /\ answers[4].kind = "response"
    /\ pc = "sleep"
    /\ requests[1].url = GnomeUrl

\* C15: a cycle issues exactly one canary GET, to one canary of
\* PORTAL_DETECT_URLS, whatever its result, and calls login at most once
C15_OneProbePerCycle ==
    /\ pc \in {"sso_get", "cred_post", "confirm_post", "sleep", "crashed", "blocked"} =>
        Len(requests) >= 1
    /\ Len(requests) >= 1 =>
        requests[1].method = "GET" /\ requests[1].url \in Canaries
    /\ \A i \in 2..Len(requests) : requests[i].url \notin Canaries
    /\ Len(call) <= 1
    /\ Cardinality({k \in 1..Len(printed) : printed[k] = Mismatch}) <= 1
C15_Witness ==
    /\ pc = "crashed"
    /\ Len(requests) = 3
    /\ requests[1].url = FirefoxUrl
    /\ raised = InvalidLogin

\* C16 (as stated): the confirm POST goes to the current URL with its last
\* path segment replaced by "update", whatever the shape of the path
C16_ConfirmReplacesLastSegment ==
    Len(requests) >= 4 =>
        /\ requests[4].url.host = answers[3].url.host
        /\ requests[4].url.path = Front(answers[3].url.path) \o <<"update">>
        /\ requests[4].data = [httpredirect |-> FALSE]

\* C16 (amended): the confirm POST goes to "../update/" resolved against the
\* current URL: the last segment of its path is replaced by "update/" when
\* the path ends in a slash or has one segment, the last two segments are
\* when it has several and no trailing slash; httpredirect is false
C16_ConfirmUrl ==
    Len(requests) >= 4 =>
        LET cur  == answers[3].url
            kept == IF cur.slash \/ Len(cur.path) <= 1
                    THEN Front(cur.path)
                    ELSE Front(Front(cur.path))
        IN  requests[4] = Post(Url(cur.scheme, cur.host, kept \o <<"update">>, TRUE, ""),
                               [httpredirect |-> FALSE])
C16_Witness ==
    /\ Len(requests) = 4
    /\ answers[3].url = EduspotNested
    /\ requests[4].url.path = <<"update">>

\* C17: check_online starts every cycle without requests, answers, session
\* or form state; login starts from a session that holds the discriminator
\* cookie only; the cookies and the form state of an attempt come from the
\* answers of its own cycle; the outcome of a finished cycle is a function
\* of the canary, the configuration and the answers of that cycle
ExpectedOutcome(canary, ans) ==
    IF ans[1].kind = "RequestException" THEN "Unreachable"
    ELSE IF TrimsTo(ans[1].content, PORTAL_DETECT_URLS[canary]) THEN "AlreadyOnline"
    ELSE IF Len(ans) = 4 /\ ans[4].kind = "response" THEN "LoggedInNow"
    ELSE "LoginFailed"
C17_NoStateCrossesCycles ==
    /\ pc = "check_online" =>
        /\ requests = <<>> /\ answers = <<>>
        /\ session = <<>> /\ submit = <<>>
        /\ call = <<>> /\ handler = "none" /\ raised = "none"
    /\ pc = "sso_get" => session = <<{Kanet}>> /\ submit = <<>>
    /\ session # <<>> =>
        \A c \in session[1] :
            \/ c = Kanet
            \/ \E i \in 2..Len(answers) :
                answers[i].kind = "response" /\ c \in SetCookie(answers[i])
    /\ submit # <<>> =>
        /\ Len(answers) >= 2
        /\ submit[1].parameters.lt = answers[2].content.lt
    /\ pc \in {"sleep", "crashed"} =>
        CycleOutcome = ExpectedOutcome(requests[1].url, answers)
C17_Witness ==
    /\ pc = "check_online"
    /\ printed = <<>>
    /\ config.login = "alice"

\* C18: a probe is issued only when no cycle is in progress, check_online is
\* entered only from the sleep (or from the start of the loop), and the
\* sleep starts only when the cycle has ended and every request of it was
\* answered
CycleSteps ==
    /\ (Len(requests') = 1 /\ requests' # requests) =>
        /\ pc = "check_online"
        /\ requests = <<>> /\ call = <<>> /\ session = <<>>
    /\ (call' # <<>> /\ call' # call) => call = <<>>
    /\ (pc' = "check_online" /\ pc # "check_online") => pc \in {"sleep", "loaded"}
    /\ (pc' = "sleep" /\ pc # "sleep") =>
        /\ CycleOutcome' \in {"Unreachable", "AlreadyOnline", "LoggedInNow"}
        /\ printed'[Len(printed')] = Waiting
        /\ \A i \in 2..Len(answers') : answers'[i].kind = "response"
C18_CyclesDoNotOverlap == [][CycleSteps]_vars
C18_Witness ==
    /\ pc = "check_online"
    /\ printed = <<>>
    /\ config.is_internal_account = "true"

\* C19: no cycle changes the configuration; the login and the password are
\* in no printed line and in no request but the credential POST, whose body
\* carries them
CredentialsConfined ==
    /\ \A k \in 1..Len(printed) : \A j \in 1..Len(printed[k]) :
        printed[k][j] \notin {config.login, config.password}
    /\ \A i \in 1..Len(requests) :
        IF i = 3
        THEN /\ requests[3].data.username = config.login
             /\ requests[3].data.password = config.password
        ELSE /\ DOMAIN requests[i].data \cap {"username", "password"} = {}
             /\ requests[i].url.query \notin {config.login, config.password}
C19_ConfigurationReadOnly ==
    /\ []CredentialsConfined
    /\ [][pc # "start" => config' = config]_vars
C19_Witness ==
    /\ Len(requests) = 4
    /\ requests[3].data.username = "alice"
    /\ requests[3].data.password = "hunter2"
    /\ Len(printed) = 4

\* C20: main exits with status 1, before any probe, when the explicit path
\* does not exist (whatever the search paths) or when no path is given and
\* no search path exists; otherwise it loads the explicit path, or the first
\* existing search path in list order; a probe is issued only with a loaded
\* configuration
ExitCondition(argv, files) ==
    \/ argv # <<>> /\ argv[1] \notin files
    \/ argv = <<>> /\ \A i \in 1..Len(CONFIG_EXPECTED_PATHS) : CONFIG_EXPECTED_PATHS[i] \notin files
C20_ConfigurationBeforeProbe ==
    /\ requests # <<>> => config \in Configs /\ pc \notin {"start", "loaded", "exited"}
    /\ pc \in {"start", "exited"} => config = NoConfig /\ requests = <<>>
    /\ pc \notin {"start", "exited"} => config \in Configs
    /\ startup # <<>> =>
        LET argv  == startup[1].argv
            files == startup[1].files
            path  == startup[1].path
        IN  /\ pc \in {"loaded", "exited"}
            /\ (pc = "exited") <=> ExitCondition(argv, files)
            /\ pc = "exited" => startup[1].status = 1 /\ path = <<>>
            /\ pc = "loaded" =>
                /\ path # <<>> /\ path[1] \in files
                /\ argv # <<>> => path = argv
                /\ argv = <<>> =>
                    \E i \in 1..Len(CONFIG_EXPECTED_PATHS) :
                        /\ path[1] = CONFIG_EXPECTED_PATHS[i]
                        /\ \A j \in 1..(i - 1) : CONFIG_EXPECTED_PATHS[j] \notin files
C20_Witness ==
    /\ pc = "exited"
    /\ startup[1].argv = <<ExplicitPath>>
    /\ "/etc/autologin.ini" \in startup[1].files

====
